---- MODULE Spec2Model ----
(***************************************************************************)
(* A model of the Orthanc REST client (orthanc/orthanc.py): the client     *)
(* object, its four verb helpers, a set of its endpoint methods, the HTTP  *)
(* client (requests) they call and the server that answers; and of the     *)
(* wrapper of a remote modality (pyorthanc/remote.py) over such a client.  *)
(***************************************************************************)
EXTENDS Integers, Sequences, FiniteSets, TLC

VARIABLES
    orthanc,      \* client name -> the fields of that Orthanc object
    patients,     \* the patient identifiers the server holds
    issued,       \* the requests the HTTP client received, in order: for each, the number of the call that issued it
    ncalls,       \* the number of endpoint-method and verb-helper calls made so far
    setup_args,   \* client name -> the arguments of its latest setup_credentials call, or None
    last,         \* the latest operation (a call on a client, or a change of the server's data): its arguments, the requests it issued, its outcome
    queries,      \* query identifier -> the number of answers of that C-Find, for the queries the server holds
    remote,       \* remote modality name -> the fields of that RemoteModality object
    superseded    \* client name -> the credentials a later setup_credentials call replaced (a record of the past, kept by the specification that starts it as such a map, None elsewhere)

vars == <<orthanc, patients, issued, ncalls, setup_args, last, queries, remote,
          superseded>>

----------------------------------------------------------------------------
(* Bounds and input sets *)

MaxCalls == 2

(* The calls a run makes on RemoteModality objects go one further: a query, *)
(* a look at its answers and a move are three.                              *)
MaxFlow == 3

ServerAddress(c) == IF c = "a" THEN "http://localhost:8042" ELSE "http://127.0.0.1:8042"

ServerAddresses == {ServerAddress(c) : c \in {"a", "b"}}

(* A_PATIENT_IDENTIFIER is the patient of the data set the server can be   *)
(* loaded with; the other identifier is never held.                        *)
A_PATIENT_IDENTIFIER == "p1"

Identifiers == {A_PATIENT_IDENTIFIER, "p2"}

----------------------------------------------------------------------------
(* Python values *)

None == [type |-> "NoneType"]

HTTPBasicAuth(username, password) ==
    [type |-> "HTTPBasicAuth", username |-> username, password |-> password]

Dict(content) == [type |-> "dict", content |-> content]

PyInt(n) == [type |-> "int", value |-> n]

PyBool(b) == [type |-> "bool", value |-> b]

NoKwargs == <<>>

Credentials == {<<"alice", "pw1">>, <<"bob", "pw2">>}

ParamsSet == {None, Dict("expand")}

(* The (data, json) pairs a caller gives to a POST or PUT. *)
BodySet == {<<None, None>>, <<Dict("Level=Study"), None>>, <<None, Dict("Query")>>}

ResourceTypes == {"Patient"}

AttachmentNames == {"dicom"}

Modalities == {"sample", "modality"}

(* The modalities the server is configured with. *)
KnownModalities == {"sample"}

QueryIdentifiers == {"q" \o ToString(n) : n \in 1..(MaxFlow + 1)}

Indexes == {"0", "1"}

IndexNumber(index) == IF index = "0" THEN 0 ELSE 1

Routes == {"http://localhost:8042/system"}

KwargsSet == {NoKwargs,
              "timeout" :> PyInt(5),
              ("timeout" :> PyInt(5)) @@ ("auth" :> HTTPBasicAuth("caller", "secret"))}

NetSet == {"ok", "down"}

Return(value) == [kind |-> "return", value |-> value]

Raise(exception) == [kind |-> "raise", value |-> [type |-> exception]]

----------------------------------------------------------------------------
(* The server, as the HTTP client sees it: a request to a patient route   *)
(* is answered from the patients the server holds (404 for a patient it    *)
(* does not hold), any other route with 200 and a document the model does  *)
(* not look into.                                                          *)

PatientSuffixes == {"", "/instances", "/instances_tags", "/studies", "/anonymize"}

PatientRoutes ==
    {<<b \o "/patients/" \o p \o s, p, s>> :
        b \in ServerAddresses, p \in Identifiers, s \in PatientSuffixes}

PatientsListRoutes == {b \o "/patients" : b \in ServerAddresses}

AddressedPatients(url) == {r[2] : r \in {x \in PatientRoutes : x[1] = url}}

ModalitySuffixes == {"/echo", "/query", "/move"}

ModalityRoutes ==
    {<<b \o "/modalities/" \o m \o s, m, s>> :
        b \in ServerAddresses, m \in Modalities, s \in ModalitySuffixes}

AddressedModalities(url) == {r[2] : r \in {x \in ModalityRoutes : x[1] = url}}

ServerStatus(req, held) ==
    IF /\ AddressedPatients(req.url) \subseteq held
       /\ AddressedModalities(req.url) \subseteq KnownModalities
    THEN 200 ELSE 404

InstancesOf(p) == {p \o "-instance1", p \o "-instance2"}

(* The document of a patient.  LastUpdate is the instant the server last   *)
(* touched the patient: it differs from one load of the server to the     *)
(* next, which the number of patients held stands for here.               *)
LastUpdate(held) == Cardinality(held)

MainDicomTags(p) ==
    [type |-> "dict", PatientBirthDate |-> "", PatientID |-> p \o "-id",
     PatientName |-> p \o "-name", PatientSex |-> "M"]

PatientDocument(p) ==
    [type |-> "dict", ID |-> p, IsStable |-> FALSE, MainDicomTags |-> MainDicomTags(p),
     Studies |-> {p \o "-study"}, Type |-> "Patient"]

StoredPatientDocument(p, held) ==
    PatientDocument(p) @@ ("LastUpdate" :> LastUpdate(held))

InstanceDocument(i, p) == [type |-> "dict", ID |-> i, Type |-> "Instance"]

ResourceBody(p, suffix, held) ==
    IF suffix = "" THEN StoredPatientDocument(p, held)
    ELSE IF suffix = "/instances"
         THEN [type |-> "list", items |-> {InstanceDocument(i, p) : i \in InstancesOf(p)}]
    ELSE IF suffix = "/instances_tags"
         THEN [type |-> "dict", keys |-> InstancesOf(p)]
    ELSE [type |-> "opaque"]

ServerBody(req, held) ==
    IF ServerStatus(req, held) # 200 THEN [type |-> "error"]
    ELSE IF req.url \in PatientsListRoutes /\ req.method = "GET"
         THEN [type |-> "list", items |-> held]
    ELSE IF req.method = "GET" /\ \E r \in PatientRoutes : r[1] = req.url
         THEN LET r == CHOOSE x \in PatientRoutes : x[1] = req.url
              IN  ResourceBody(r[2], r[3], held)
    ELSE [type |-> "opaque"]

ServerHeldAfter(req, held) ==
    IF req.method = "DELETE" /\ \E r \in PatientRoutes : r[1] = req.url /\ r[3] = ""
    THEN held \ AddressedPatients(req.url)
    ELSE held

RECURSIVE HeldAfterAll(_, _, _)
HeldAfterAll(sent, held, net) ==
    IF sent = <<>> \/ net = "down" THEN held
    ELSE HeldAfterAll(Tail(sent), ServerHeldAfter(Head(sent), held), net)

(* The queries (C-Find) the server made on a modality: a POST to           *)
(* /modalities/<known modality>/query makes one, under a fresh identifier, *)
(* which the answer carries under ID; /queries/<identifier>/... is         *)
(* answered from the query of that identifier, 404 without one.            *)
QuerySuffixes == {"/answers", "/retrieve"} \cup {"/answers/" \o i \o "/content" : i \in Indexes}

QueryRoutes ==
    {<<b \o "/queries/" \o q \o s, q, s>> :
        b \in ServerAddresses, q \in QueryIdentifiers, s \in QuerySuffixes}

QueryRoute(url) == CHOOSE r \in QueryRoutes : r[1] = url

IsQueryRoute(url) == \E r \in QueryRoutes : r[1] = url

MakesQuery(req, held) ==
    /\ req.method = "POST"
    /\ \E r \in ModalityRoutes : r[1] = req.url /\ r[3] = "/query"
    /\ ServerStatus(req, held) = 200

NewQueryIdentifier(made) == "q" \o ToString(Cardinality(DOMAIN made) + 1)

(* What the modality finds: two studies for a query at the study level. *)
AnswersFound(req) == IF req.kw.data = Dict("Level=Study") THEN 2 ELSE 0

AnswerIndex(suffix) ==
    IF \E i \in Indexes : suffix = "/answers/" \o i \o "/content"
    THEN {IndexNumber(i) : i \in {j \in Indexes : suffix = "/answers/" \o j \o "/content"}}
    ELSE {}

AnswerDocument(q, n) ==
    [type |-> "dict", Query |-> q, Answer |-> n, PatientID |-> "p" \o ToString(n + 1) \o "-id"]

Status(req, held, made) ==
    IF IsQueryRoute(req.url)
    THEN LET r == QueryRoute(req.url)
         IN  IF /\ r[2] \in DOMAIN made
                /\ \A n \in AnswerIndex(r[3]) : n < made[r[2]]
             THEN 200 ELSE 404
    ELSE ServerStatus(req, held)

Body(req, held, made) ==
    IF Status(req, held, made) # 200 THEN [type |-> "error"]
    ELSE IF MakesQuery(req, held)
         THEN [type |-> "dict", ID |-> NewQueryIdentifier(made),
               Path |-> "/queries/" \o NewQueryIdentifier(made)]
    ELSE IF IsQueryRoute(req.url) /\ req.method = "GET"
         THEN LET r == QueryRoute(req.url)
              IN  IF r[3] = "/answers"
                  THEN [type |-> "list",
                        items |-> [i \in 1..made[r[2]] |-> AnswerDocument(r[2], i - 1)]]
                  ELSE AnswerDocument(r[2], CHOOSE n \in AnswerIndex(r[3]) : TRUE)
    ELSE ServerBody(req, held)

MadeAfter(req, held, made) ==
    IF MakesQuery(req, held)
    THEN made @@ (NewQueryIdentifier(made) :> AnswersFound(req))
    ELSE made

RECURSIVE MadeAfterAll(_, _, _, _)
MadeAfterAll(sent, held, made, net) ==
    IF sent = <<>> \/ net = "down" THEN made
    ELSE MadeAfterAll(Tail(sent), ServerHeldAfter(Head(sent), held),
                      MadeAfter(Head(sent), held, made), net)

Response(req) ==
    [serial |-> Len(issued) + 1,
     status_code |-> Status(req, patients, queries),
     body |-> Body(req, patients, queries)]

----------------------------------------------------------------------------
(* The HTTP client: requests.get / delete / post / put.  A keyword given   *)
(* both by name and in **kwargs is a TypeError of the call itself: the     *)
(* HTTP client is not entered.  Otherwise the HTTP client receives one     *)
(* request and either fails to connect or hands back the server's answer.  *)

\* a keyword given twice is no error: the caller's value replaces the other
requests_request_overriding(method, url, named, kwargs, net) ==
    LET req == [method |-> method, url |-> url, kw |-> kwargs @@ named]
    IN  [sent |-> <<req>>,
         outcome |-> IF net = "down" THEN Raise("ConnectionError")
                     ELSE Return(Response(req))]

requests_request(method, url, named, kwargs, net) ==
    IF (DOMAIN named) \cap (DOMAIN kwargs) # {}
    THEN [sent |-> <<>>, outcome |-> Raise("TypeError")]
    ELSE LET req == [method |-> method, url |-> url, kw |-> named @@ kwargs]
         IN  [sent |-> <<req>>,
              outcome |-> IF net = "down" THEN Raise("ConnectionError")
                          ELSE Return(Response(req))]

\* the helper drops the credentials once it has used them
Returning_forgetting(self, effect) ==
    [self |-> [self EXCEPT !._credentials_are_set = FALSE, !._credentials = None],
     sent |-> effect.sent, outcome |-> effect.outcome]

(* A method body that is one return statement: it assigns nothing to self. *)
Returning(self, effect) ==
    [self |-> self, sent |-> effect.sent, outcome |-> effect.outcome]

----------------------------------------------------------------------------
(* Orthanc: constructor, credentials and the four verb helpers *)

Orthanc__init__(orthanc_url) ==
    [_orthanc_url |-> orthanc_url,
     _credentials_are_set |-> FALSE,
     _credentials |-> None]

\* credentials once set are kept: a later call changes nothing
Orthanc_setup_credentials_once(self, username, password) ==
    IF self._credentials_are_set THEN self
    ELSE [self EXCEPT !._credentials = HTTPBasicAuth(username, password),
                      !._credentials_are_set = TRUE]

\* the credentials are stored and the flag is left as it was
Orthanc_setup_credentials_without_flag(self, username, password) ==
    [self EXCEPT !._credentials = HTTPBasicAuth(username, password)]

Orthanc_setup_credentials(self, username, password) ==
    [self EXCEPT !._credentials = HTTPBasicAuth(username, password),
                 !._credentials_are_set = TRUE]

(* Variants of the verb helpers with one slip each, used to show that the  *)
(* properties below depend on the helpers.                                 *)

\* raise_for_status(): a non-2xx answer becomes an exception
get_request_raising(self, route, params, kwargs, net) ==
    LET r == requests_request("GET", route,
                 IF self._credentials_are_set
                 THEN [params |-> params, auth |-> self._credentials]
                 ELSE [params |-> params], kwargs, net)
    IN  IF r.outcome.kind = "return" /\ r.outcome.value.status_code \notin 200..299
        THEN Returning(self, [sent |-> r.sent, outcome |-> Raise("HTTPError")])
        ELSE Returning(self, r)

\* the helper decodes the answer and returns its JSON document
get_request_decoding(self, route, params, kwargs, net) ==
    LET r == requests_request("GET", route,
                 IF self._credentials_are_set
                 THEN [params |-> params, auth |-> self._credentials]
                 ELSE [params |-> params], kwargs, net)
    IN  IF r.outcome.kind = "return"
        THEN Returning(self, [sent |-> r.sent, outcome |-> Return(r.outcome.value.body)])
        ELSE Returning(self, r)

\* a connection failure is retried once
delete_request_retrying(self, route, kwargs, net) ==
    LET r == requests_request("DELETE", route,
                 IF self._credentials_are_set
                 THEN [auth |-> self._credentials] ELSE <<>>, kwargs, net)
    IN  IF r.outcome = Raise("ConnectionError")
        THEN Returning(self, [sent |-> r.sent \o r.sent, outcome |-> r.outcome])
        ELSE Returning(self, r)

\* the credentials branch does not return: the request is issued twice
post_request_falling_through(self, route, data, json, kwargs, net) ==
    LET r == requests_request("POST", route, [data |-> data, json |-> json], kwargs, net)
    IN  IF self._credentials_are_set
        THEN Returning(self, [sent |-> r.sent \o r.sent, outcome |-> r.outcome])
        ELSE Returning(self, r)

\* the credentials branch forgets auth=
put_request_without_auth(self, route, data, json, kwargs, net) ==
    Returning(self, requests_request("PUT", route,
        [data |-> data, json |-> json], kwargs, net))

\* data and json change places
put_request_swapping(self, route, data, json, kwargs, net) ==
    Returning(self, requests_request("PUT", route,
        IF self._credentials_are_set
        THEN [auth |-> self._credentials, data |-> json, json |-> data]
        ELSE [data |-> json, json |-> data], kwargs, net))

\* requests.get where requests.delete is meant
delete_request_getting(self, route, kwargs, net) ==
    Returning(self, requests_request("GET", route,
        IF self._credentials_are_set THEN [auth |-> self._credentials] ELSE <<>>,
        kwargs, net))

\* the authenticated branch leaves the caller's keyword arguments out
get_request_dropping_kwargs(self, route, params, kwargs, net) ==
    IF self._credentials_are_set
    THEN Returning(self, requests_request("GET", route,
             [params |-> params, auth |-> self._credentials], NoKwargs, net))
    ELSE Returning(self, requests_request("GET", route, [params |-> params], kwargs, net))

\* the branch without credentials leaves json out
put_request_dropping_json(self, route, data, json, kwargs, net) ==
    IF self._credentials_are_set
    THEN Returning(self, requests_request("PUT", route,
             [auth |-> self._credentials, data |-> data, json |-> json], kwargs, net))
    ELSE Returning(self, requests_request("PUT", route, [data |-> data], kwargs, net))

get_request(self, route, params, kwargs, net) ==
    IF self._credentials_are_set
    THEN Returning(self, requests_request("GET", route,
             [params |-> params, auth |-> self._credentials], kwargs, net))
    ELSE Returning(self, requests_request("GET", route,
             [params |-> params], kwargs, net))

delete_request(self, route, kwargs, net) ==
    IF self._credentials_are_set
    THEN Returning(self, requests_request("DELETE", route,
             [auth |-> self._credentials], kwargs, net))
    ELSE Returning(self, requests_request("DELETE", route, <<>>, kwargs, net))

post_request(self, route, data, json, kwargs, net) ==
    IF self._credentials_are_set
    THEN Returning(self, requests_request("POST", route,
             [auth |-> self._credentials, data |-> data, json |-> json], kwargs, net))
    ELSE Returning(self, requests_request("POST", route,
             [data |-> data, json |-> json], kwargs, net))

put_request(self, route, data, json, kwargs, net) ==
    IF self._credentials_are_set
    THEN Returning(self, requests_request("PUT", route,
             [auth |-> self._credentials, data |-> data, json |-> json], kwargs, net))
    ELSE Returning(self, requests_request("PUT", route,
             [data |-> data, json |-> json], kwargs, net))

----------------------------------------------------------------------------
(* Endpoint methods *)

\* the list of another resource level
get_patients_of_studies(self, params, kwargs, net) ==
    get_request(self, self._orthanc_url \o "/studies", params, kwargs, net)

get_patients(self, params, kwargs, net) ==
    get_request(self, self._orthanc_url \o "/patients", params, kwargs, net)

\* the studies of the patient for the patient itself
get_patients_identifier_of_studies(self, identifier, params, kwargs, net) ==
    get_request(self, self._orthanc_url \o "/patients/" \o identifier \o "/studies",
                params, kwargs, net)

\* the slash of a path argument is percent-encoded
get_patients_identifier_quoting(self, identifier, params, kwargs, net) ==
    LET quoted == IF \E x \in Identifiers : identifier = x \o "/studies"
                  THEN (CHOOSE x \in Identifiers : identifier = x \o "/studies")
                           \o "%2Fstudies"
                  ELSE identifier
    IN  get_request(self, self._orthanc_url \o "/patients/" \o quoted,
                    params, kwargs, net)

get_patients_identifier(self, identifier, params, kwargs, net) ==
    get_request(self, self._orthanc_url \o "/patients/" \o identifier,
                params, kwargs, net)

get_patients_identifier_studies(self, identifier, params, kwargs, net) ==
    get_request(self, self._orthanc_url \o "/patients/" \o identifier \o "/studies",
                params, kwargs, net)

get_studies_identifier(self, identifier, params, kwargs, net) ==
    get_request(self, self._orthanc_url \o "/studies/" \o identifier,
                params, kwargs, net)

get_series_identifier(self, identifier, params, kwargs, net) ==
    get_request(self, self._orthanc_url \o "/series/" \o identifier,
                params, kwargs, net)

get_instances_identifier(self, identifier, params, kwargs, net) ==
    get_request(self, self._orthanc_url \o "/instances/" \o identifier,
                params, kwargs, net)

delete_patients_identifier(self, identifier, kwargs, net) ==
    delete_request(self, self._orthanc_url \o "/patients/" \o identifier,
                   kwargs, net)

\* the instances of the study of that identifier
get_patients_identifier_instances_of_studies(self, identifier, params, kwargs, net) ==
    get_request(self, self._orthanc_url \o "/studies/" \o identifier \o "/instances",
                params, kwargs, net)

get_patients_identifier_instances(self, identifier, params, kwargs, net) ==
    get_request(self, self._orthanc_url \o "/patients/" \o identifier \o "/instances",
                params, kwargs, net)

\* a hyphen for the underscore of the path
get_patients_identifier_instances_tags_hyphen(self, identifier, params, kwargs, net) ==
    get_request(self, self._orthanc_url \o "/patients/" \o identifier \o "/instances-tags",
                params, kwargs, net)

get_patients_identifier_instances_tags(self, identifier, params, kwargs, net) ==
    get_request(self, self._orthanc_url \o "/patients/" \o identifier \o "/instances_tags",
                params, kwargs, net)

post_patients_identifier_anonymize(self, identifier, data, json, kwargs, net) ==
    post_request(self, self._orthanc_url \o "/patients/" \o identifier \o "/anonymize",
                 data, json, kwargs, net)

\* the path of another resource level
get_instances_identifier_tags_of_series(self, identifier, params, kwargs, net) ==
    get_request(self, self._orthanc_url \o "/series/" \o identifier \o "/tags",
                params, kwargs, net)

get_instances_identifier_tags(self, identifier, params, kwargs, net) ==
    get_request(self, self._orthanc_url \o "/instances/" \o identifier \o "/tags",
                params, kwargs, net)

post_modalities_dicom_query(self, dicom, data, json, kwargs, net) ==
    post_request(self, self._orthanc_url \o "/modalities/" \o dicom \o "/query",
                 data, json, kwargs, net)

\* the C-Find path for the C-Echo
post_modalities_dicom_echo_as_query(self, dicom, data, json, kwargs, net) ==
    post_request(self, self._orthanc_url \o "/modalities/" \o dicom \o "/query",
                 data, json, kwargs, net)

post_modalities_dicom_echo(self, dicom, data, json, kwargs, net) ==
    post_request(self, self._orthanc_url \o "/modalities/" \o dicom \o "/echo",
                 data, json, kwargs, net)

post_modalities_dicom_move(self, dicom, data, json, kwargs, net) ==
    post_request(self, self._orthanc_url \o "/modalities/" \o dicom \o "/move",
                 data, json, kwargs, net)

\* the content of the first answer for the answers
get_queries_identifier_answers_of_first(self, identifier, params, kwargs, net) ==
    get_request(self, self._orthanc_url \o "/queries/" \o identifier
                          \o "/answers/0/content",
                params, kwargs, net)

get_queries_identifier_answers(self, identifier, params, kwargs, net) ==
    get_request(self, self._orthanc_url \o "/queries/" \o identifier \o "/answers",
                params, kwargs, net)

get_queries_identifier_answers_index_content(self, identifier, index, params, kwargs, net) ==
    get_request(self, self._orthanc_url \o "/queries/" \o identifier \o "/answers/"
                          \o index \o "/content",
                params, kwargs, net)

post_queries_identifier_retrieve(self, identifier, data, json, kwargs, net) ==
    post_request(self, self._orthanc_url \o "/queries/" \o identifier \o "/retrieve",
                 data, json, kwargs, net)

post_tools_find(self, data, json, kwargs, net) ==
    post_request(self, self._orthanc_url \o "/tools/find", data, json, kwargs, net)

get_attachments(self, resource_type, identifier, params, kwargs, net) ==
    get_request(self,
                self._orthanc_url \o "/" \o resource_type \o "/" \o identifier
                    \o "/attachments",
                params, kwargs, net)

put_attachment_by_name(self, resource_type, identifier, name, data, json, kwargs, net) ==
    put_request(self,
                self._orthanc_url \o "/" \o resource_type \o "/" \o identifier
                    \o "/attachments/" \o name,
                data, json, kwargs, net)

----------------------------------------------------------------------------
(* RemoteModality: a wrapper around an Orthanc object and the name of a    *)
(* modality.  orthanc is a reference: the name of the client it wraps.     *)

RemoteModality__init__(orthanc_ref, modality) ==
    [orthanc |-> orthanc_ref, modality |-> modality]

----------------------------------------------------------------------------
(* State machine *)

NoArgs == [payload |-> <<>>, kwargs |-> NoKwargs]

Init ==
    /\ orthanc = [c \in {"a"} |-> Orthanc__init__(ServerAddress(c))]
    /\ patients = {}
    /\ issued = <<>>
    /\ ncalls = 0
    /\ setup_args = [c \in {"a"} |-> None]
    /\ last = [op |-> "__init__", client |-> "a", args |-> NoArgs, net |-> "ok",
               before |-> Orthanc__init__(ServerAddress("a")), held |-> {},
               made |-> <<>>, flow |-> <<>>,
               sent |-> <<>>, outcome |-> Return(None)]
    /\ queries = <<>>
    /\ remote = [m \in Modalities |-> RemoteModality__init__("a", m)]
    /\ superseded = None

(* One call that reaches a method of client c: r is what the method does, *)
(* flow the calls on a RemoteModality that it ends an unbroken run of.     *)
InvokeWithin(bound, c, op, args, net, result, flow) ==
    LET r == result IN
    /\ ncalls < bound
    /\ ncalls' = ncalls + 1
    /\ orthanc' = [orthanc EXCEPT ![c] = r.self]
    /\ issued' = issued \o [i \in 1..Len(r.sent) |-> ncalls + 1]
    /\ patients' = HeldAfterAll(r.sent, patients, net)
    /\ queries' = MadeAfterAll(r.sent, patients, queries, net)
    /\ last' = [op |-> op, client |-> c, args |-> args, net |-> net,
                before |-> orthanc[c], held |-> patients,
                made |-> queries, flow |-> flow,
                sent |-> r.sent, outcome |-> r.outcome]
    /\ UNCHANGED <<setup_args, superseded>>

(* One call of a method of client c. *)
Invoke(c, op, args, net, result) ==
    /\ InvokeWithin(MaxCalls, c, op, args, net, result, <<>>)
    /\ UNCHANGED remote

(* The record of the credentials replaced so far, after a                 *)
(* setup_credentials call on client c.                                     *)
Replaced(c) ==
    IF superseded = None \/ ~orthanc[c]._credentials_are_set THEN superseded
    ELSE [superseded EXCEPT ![c] = @ \cup {orthanc[c]._credentials}]

\* the credentials are attributes of the class: every object gets them
setup_credentials_shared ==
    \E c \in DOMAIN orthanc, cred \in Credentials :
        /\ orthanc' = [d \in DOMAIN orthanc |->
                          Orthanc_setup_credentials(orthanc[d], cred[1], cred[2])]
        /\ setup_args' = [setup_args EXCEPT
                            ![c] = [username |-> cred[1], password |-> cred[2]]]
        /\ last' = [op |-> "setup_credentials", client |-> c, args |-> NoArgs,
                    net |-> "ok", before |-> orthanc[c], held |-> patients,
                    made |-> queries, flow |-> <<>>,
                    sent |-> <<>>, outcome |-> Return(None)]
        /\ superseded' = Replaced(c)
        /\ UNCHANGED <<patients, issued, ncalls, queries, remote>>

setup_credentials ==
    \E c \in DOMAIN orthanc, cred \in Credentials :
        /\ orthanc' = [orthanc EXCEPT
                         ![c] = Orthanc_setup_credentials(orthanc[c], cred[1], cred[2])]
        /\ setup_args' = [setup_args EXCEPT
                            ![c] = [username |-> cred[1], password |-> cred[2]]]
        /\ last' = [op |-> "setup_credentials", client |-> c, args |-> NoArgs,
                    net |-> "ok", before |-> orthanc[c], held |-> patients,
                    made |-> queries, flow |-> <<>>,
                    sent |-> <<>>, outcome |-> Return(None)]
        /\ superseded' = Replaced(c)
        /\ UNCHANGED <<patients, issued, ncalls, queries, remote>>

(* The server's data changes behind the client's back. *)
ServerEvent(op) ==
    [op |-> op, client |-> "a", args |-> NoArgs, net |-> "ok",
     before |-> orthanc["a"], held |-> patients, made |-> queries, flow |-> <<>>,
     sent |-> <<>>, outcome |-> Return(None)]

setup_data ==
    /\ A_PATIENT_IDENTIFIER \notin patients
    /\ patients' = patients \cup {A_PATIENT_IDENTIFIER}
    /\ last' = ServerEvent("setup_data")
    /\ UNCHANGED <<orthanc, issued, ncalls, setup_args, queries, remote, superseded>>

clear_data ==
    /\ patients # {}
    /\ patients' = {}
    /\ last' = ServerEvent("clear_data")
    /\ UNCHANGED <<orthanc, issued, ncalls, setup_args, queries, remote, superseded>>

(* Data of any patient reaches the server (another client stores it). *)
store_data ==
    \E p \in Identifiers :
        /\ p \notin patients
        /\ patients' = patients \cup {p}
        /\ last' = ServerEvent("store_data")
        /\ UNCHANGED <<orthanc, issued, ncalls, setup_args, queries, remote, superseded>>

Call_get_patients ==
    \E c \in DOMAIN orthanc, params \in ParamsSet, kwargs \in KwargsSet, net \in NetSet :
        Invoke(c, "get_patients",
               [payload |-> [params |-> params], kwargs |-> kwargs],
               net, get_patients(orthanc[c], params, kwargs, net))

Call_get_patients_identifier ==
    \E c \in DOMAIN orthanc, identifier \in Identifiers, params \in ParamsSet,
       kwargs \in KwargsSet, net \in NetSet :
        Invoke(c, "get_patients_identifier",
               [identifier |-> identifier, payload |-> [params |-> params],
                kwargs |-> kwargs],
               net, get_patients_identifier(orthanc[c], identifier, params, kwargs, net))

Call_delete_patients_identifier ==
    \E c \in DOMAIN orthanc, identifier \in Identifiers, kwargs \in KwargsSet, net \in NetSet :
        Invoke(c, "delete_patients_identifier",
               [identifier |-> identifier, payload |-> <<>>, kwargs |-> kwargs],
               net, delete_patients_identifier(orthanc[c], identifier, kwargs, net))

Call_post_patients_identifier_anonymize ==
    \E c \in DOMAIN orthanc, identifier \in Identifiers, body \in BodySet,
       kwargs \in KwargsSet, net \in NetSet :
        Invoke(c, "post_patients_identifier_anonymize",
               [identifier |-> identifier,
                payload |-> [data |-> body[1], json |-> body[2]], kwargs |-> kwargs],
               net, post_patients_identifier_anonymize(orthanc[c], identifier,
                                                       body[1], body[2], kwargs, net))

Call_get_instances_identifier_tags ==
    \E c \in DOMAIN orthanc, identifier \in Identifiers, params \in ParamsSet,
       kwargs \in KwargsSet, net \in NetSet :
        Invoke(c, "get_instances_identifier_tags",
               [identifier |-> identifier, payload |-> [params |-> params],
                kwargs |-> kwargs],
               net, get_instances_identifier_tags(orthanc[c], identifier, params,
                                                  kwargs, net))

Call_post_modalities_dicom_query ==
    \E c \in DOMAIN orthanc, dicom \in Modalities, body \in BodySet,
       kwargs \in KwargsSet, net \in NetSet :
        Invoke(c, "post_modalities_dicom_query",
               [dicom |-> dicom,
                payload |-> [data |-> body[1], json |-> body[2]], kwargs |-> kwargs],
               net, post_modalities_dicom_query(orthanc[c], dicom, body[1], body[2],
                                                kwargs, net))

Call_post_tools_find ==
    \E c \in DOMAIN orthanc, body \in BodySet, kwargs \in KwargsSet, net \in NetSet :
        Invoke(c, "post_tools_find",
               [payload |-> [data |-> body[1], json |-> body[2]], kwargs |-> kwargs],
               net, post_tools_find(orthanc[c], body[1], body[2], kwargs, net))

Call_get_attachments ==
    \E c \in DOMAIN orthanc, resource_type \in ResourceTypes, identifier \in Identifiers,
       params \in ParamsSet, kwargs \in KwargsSet, net \in NetSet :
        Invoke(c, "get_attachments",
               [resource_type |-> resource_type, identifier |-> identifier,
                payload |-> [params |-> params], kwargs |-> kwargs],
               net, get_attachments(orthanc[c], resource_type, identifier, params,
                                    kwargs, net))

Call_put_attachment_by_name ==
    \E c \in DOMAIN orthanc, resource_type \in ResourceTypes, identifier \in Identifiers,
       name \in AttachmentNames, body \in BodySet, kwargs \in KwargsSet,
       net \in NetSet :
        Invoke(c, "put_attachment_by_name",
               [resource_type |-> resource_type, identifier |-> identifier,
                name |-> name, payload |-> [data |-> body[1], json |-> body[2]],
                kwargs |-> kwargs],
               net, put_attachment_by_name(orthanc[c], resource_type, identifier, name,
                                           body[1], body[2], kwargs, net))

(* The verb helpers are public too: a caller may give them any route. *)
Call_get_request ==
    \E c \in DOMAIN orthanc, route \in Routes, params \in ParamsSet,
       kwargs \in KwargsSet, net \in NetSet :
        Invoke(c, "get_request",
               [route |-> route, payload |-> [params |-> params], kwargs |-> kwargs],
               net, get_request(orthanc[c], route, params, kwargs, net))

Call_delete_request ==
    \E c \in DOMAIN orthanc, route \in Routes, kwargs \in KwargsSet, net \in NetSet :
        Invoke(c, "delete_request",
               [route |-> route, payload |-> <<>>, kwargs |-> kwargs],
               net, delete_request(orthanc[c], route, kwargs, net))

Call_post_request ==
    \E c \in DOMAIN orthanc, route \in Routes, body \in BodySet,
       kwargs \in KwargsSet, net \in NetSet :
        Invoke(c, "post_request",
               [route |-> route, payload |-> [data |-> body[1], json |-> body[2]],
                kwargs |-> kwargs],
               net, post_request(orthanc[c], route, body[1], body[2], kwargs, net))

Call_put_request ==
    \E c \in DOMAIN orthanc, route \in Routes, body \in BodySet,
       kwargs \in KwargsSet, net \in NetSet :
        Invoke(c, "put_request",
               [route |-> route, payload |-> [data |-> body[1], json |-> body[2]],
                kwargs |-> kwargs],
               net, put_request(orthanc[c], route, body[1], body[2], kwargs, net))

Next ==
    \/ setup_credentials
    \/ setup_data
    \/ clear_data
    \/ Call_get_request
    \/ Call_delete_request
    \/ Call_post_request
    \/ Call_put_request
    \/ Call_get_patients
    \/ Call_get_patients_identifier
    \/ Call_delete_patients_identifier
    \/ Call_post_patients_identifier_anonymize
    \/ Call_get_instances_identifier_tags
    \/ Call_post_modalities_dicom_query
    \/ Call_post_tools_find
    \/ Call_get_attachments
    \/ Call_put_attachment_by_name

Spec == Init /\ [][Next]_vars

----------------------------------------------------------------------------
(* pyorthanc.Orthanc, the class the patient tests exercise: its methods    *)
(* decode the answer of the endpoint they read.  A document comes back as  *)
(* a Python value, a missing resource as ElementNotFoundError, and a       *)
(* deletion as a boolean.                                                  *)

Decoded(r) ==
    IF r.outcome.kind # "return" THEN r.outcome
    ELSE IF r.outcome.value.status_code = 200 THEN Return(r.outcome.value.body)
    ELSE IF r.outcome.value.status_code = 404 THEN Raise("ElementNotFoundError")
    ELSE Raise("HTTPError")

Deleted(r) ==
    IF r.outcome.kind # "return" THEN r.outcome
    ELSE Return(PyBool(r.outcome.value.status_code = 200))

pyorthanc_get_patients(self, net) ==
    LET r == get_patients(self, None, NoKwargs, net)
    IN  [self |-> r.self, sent |-> r.sent, outcome |-> Decoded(r)]

get_patient_information(self, patient_identifier, net) ==
    LET r == get_patients_identifier(self, patient_identifier, None, NoKwargs, net)
    IN  [self |-> r.self, sent |-> r.sent, outcome |-> Decoded(r)]

get_patient_instances(self, patient_identifier, net) ==
    LET r == get_patients_identifier_instances(self, patient_identifier, None,
                                               NoKwargs, net)
    IN  [self |-> r.self, sent |-> r.sent, outcome |-> Decoded(r)]

get_patient_instances_tags(self, patient_identifier, net) ==
    LET r == get_patients_identifier_instances_tags(self, patient_identifier, None,
                                                    NoKwargs, net)
    IN  [self |-> r.self, sent |-> r.sent, outcome |-> Decoded(r)]

get_patient_simplified_instances_tags(self, patient_identifier, net) ==
    LET r == get_patients_identifier_instances_tags(self, patient_identifier,
                                                    Dict("simplify"), NoKwargs, net)
    IN  [self |-> r.self, sent |-> r.sent, outcome |-> Decoded(r)]

get_patient_short_instances_tags(self, patient_identifier, net) ==
    LET r == get_patients_identifier_instances_tags(self, patient_identifier,
                                                    Dict("short"), NoKwargs, net)
    IN  [self |-> r.self, sent |-> r.sent, outcome |-> Decoded(r)]

delete_patient(self, patient_identifier, net) ==
    LET r == delete_patients_identifier(self, patient_identifier, NoKwargs, net)
    IN  [self |-> r.self, sent |-> r.sent, outcome |-> Deleted(r)]

PatientReads == {"get_patient_information", "get_patient_instances",
                 "get_patient_instances_tags", "get_patient_simplified_instances_tags",
                 "get_patient_short_instances_tags"}

PatientArgs(patient_identifier) ==
    [identifier |-> patient_identifier, payload |-> <<>>, kwargs |-> NoKwargs]

(* The tests run against a server that is up: net is "ok" in these calls. *)
Test_get_patients ==
    \E c \in DOMAIN orthanc :
        Invoke(c, "pyorthanc.get_patients", NoArgs, "ok",
               pyorthanc_get_patients(orthanc[c], "ok"))

Test_get_patient_information ==
    \E c \in DOMAIN orthanc, patient_identifier \in Identifiers :
        Invoke(c, "get_patient_information", PatientArgs(patient_identifier), "ok",
               get_patient_information(orthanc[c], patient_identifier, "ok"))

Test_get_patient_instances ==
    \E c \in DOMAIN orthanc, patient_identifier \in Identifiers :
        Invoke(c, "get_patient_instances", PatientArgs(patient_identifier), "ok",
               get_patient_instances(orthanc[c], patient_identifier, "ok"))

Test_get_patient_instances_tags ==
    \E c \in DOMAIN orthanc, patient_identifier \in Identifiers :
        Invoke(c, "get_patient_instances_tags", PatientArgs(patient_identifier), "ok",
               get_patient_instances_tags(orthanc[c], patient_identifier, "ok"))

Test_get_patient_simplified_instances_tags ==
    \E c \in DOMAIN orthanc, patient_identifier \in Identifiers :
        Invoke(c, "get_patient_simplified_instances_tags",
               PatientArgs(patient_identifier), "ok",
               get_patient_simplified_instances_tags(orthanc[c], patient_identifier, "ok"))

Test_get_patient_short_instances_tags ==
    \E c \in DOMAIN orthanc, patient_identifier \in Identifiers :
        Invoke(c, "get_patient_short_instances_tags",
               PatientArgs(patient_identifier), "ok",
               get_patient_short_instances_tags(orthanc[c], patient_identifier, "ok"))

Test_delete_patient ==
    \E c \in DOMAIN orthanc, patient_identifier \in Identifiers :
        Invoke(c, "delete_patient", PatientArgs(patient_identifier), "ok",
               delete_patient(orthanc[c], patient_identifier, "ok"))

NextPatients ==
    \/ setup_credentials
    \/ store_data
    \/ clear_data
    \/ Test_get_patients
    \/ Test_get_patient_information
    \/ Test_get_patient_instances
    \/ Test_get_patient_instances_tags
    \/ Test_get_patient_simplified_instances_tags
    \/ Test_get_patient_short_instances_tags
    \/ Test_delete_patient

SpecPatients == Init /\ [][NextPatients]_vars

----------------------------------------------------------------------------
(* RemoteModality over pyorthanc.Orthanc *)

(* The methods of pyorthanc.Orthanc that RemoteModality calls: each makes  *)
(* the request of one endpoint; a C-Echo and a C-Move come back as a       *)
(* boolean, a C-Find as the response, the answers of a query decoded.      *)
Succeeded(r) ==
    IF r.outcome.kind # "return" THEN r.outcome
    ELSE Return(PyBool(r.outcome.value.status_code = 200))

echo_to_modality(self, modality, net) ==
    LET r == post_modalities_dicom_echo(self, modality, None, None, NoKwargs, net)
    IN  [self |-> r.self, sent |-> r.sent, outcome |-> Succeeded(r)]

query_on_modality(self, modality, data, net) ==
    post_modalities_dicom_query(self, modality, data, None, NoKwargs, net)

move_from_modality(self, modality, data, net) ==
    LET r == post_modalities_dicom_move(self, modality, data, None, NoKwargs, net)
    IN  [self |-> r.self, sent |-> r.sent, outcome |-> Succeeded(r)]

move_query_results_to_given_modality(self, query_identifier, data, net) ==
    LET r == post_queries_identifier_retrieve(self, query_identifier, data, None,
                                              NoKwargs, net)
    IN  [self |-> r.self, sent |-> r.sent, outcome |-> Succeeded(r)]

pyorthanc_get_query_answer_number_of_results(self, query_identifier, params, net) ==
    LET r == get_queries_identifier_answers(self, query_identifier, params, NoKwargs, net)
    IN  [self |-> r.self, sent |-> r.sent, outcome |-> Decoded(r)]

pyorthanc_get_content_of_specified_query_answer(self, query_identifier, index, params, net) ==
    LET r == get_queries_identifier_answers_index_content(self, query_identifier, index,
                                                          params, NoKwargs, net)
    IN  [self |-> r.self, sent |-> r.sent, outcome |-> Decoded(r)]

(* A method body that is one return of a call on self.orthanc: it assigns  *)
(* nothing to the RemoteModality; r is what the call does.                 *)
Delegating(self, r) ==
    [remote |-> self, self |-> r.self, sent |-> r.sent, outcome |-> r.outcome]

(* The methods of RemoteModality; self_orthanc is the object self.orthanc  *)
(* refers to.                                                              *)

\* the data of the caller is left out of the C-Find
query_without_data(self, self_orthanc, data, net) ==
    Delegating(self, query_on_modality(self_orthanc, self.modality, None, net))

\* a C-Find where the C-Move belongs
retrieve_querying(self, self_orthanc, data, net) ==
    Delegating(self, query_on_modality(self_orthanc, self.modality, data, net))

\* the results of the first query, whatever identifier the caller gives
move_of_first_query(self, self_orthanc, query_identifier, cmove_data, net) ==
    Delegating(self, move_query_results_to_given_modality(self_orthanc, "q1",
                                                          cmove_data, net))

echo(self, self_orthanc, net) ==
    Delegating(self, echo_to_modality(self_orthanc, self.modality, net))

query(self, self_orthanc, data, net) ==
    Delegating(self, query_on_modality(self_orthanc, self.modality, data, net))

retrieve(self, self_orthanc, data, net) ==
    Delegating(self, move_from_modality(self_orthanc, self.modality, data, net))

move(self, self_orthanc, query_identifier, cmove_data, net) ==
    Delegating(self, move_query_results_to_given_modality(self_orthanc, query_identifier,
                                                          cmove_data, net))

(* Both methods accept **kwargs and pass none of them on. *)
get_query_answer_number_of_results(self, self_orthanc, query_identifier, params, kwargs, net) ==
    Delegating(self, pyorthanc_get_query_answer_number_of_results(
                         self_orthanc, query_identifier, params, net))

get_content_of_specified_query_answer(self, self_orthanc, query_identifier, index, params, kwargs, net) ==
    Delegating(self, pyorthanc_get_content_of_specified_query_answer(
                         self_orthanc, query_identifier, index, params, net))

(* What a caller of RemoteModality gives. *)
QueryData == {Dict("Level=Study"), Dict("Level=Patient")}

CMoveData == {Dict("TargetAET=sample")}

CallerQueries == {"q1", "q2"}

RemoteKwargs == {NoKwargs, "timeout" :> PyInt(5)}

RemoteArgs(rm, payload, kwargs) == [remote |-> rm, payload |-> payload, kwargs |-> kwargs]

(* The query identifier a step is about: the one the answer to a query    *)
(* carries, the one the caller gives to the other steps.                   *)
Step(op, query_identifier) == [op |-> op, query |-> query_identifier]

QueryOf(r) ==
    IF r.outcome.kind = "return" /\ r.outcome.value.status_code = 200
    THEN r.outcome.value.body.ID
    ELSE ""

(* The record of a run of calls keeps the steps a flow is made of: the    *)
(* latest three.                                                           *)
LatestSteps(flow) ==
    IF Len(flow) > 3 THEN SubSeq(flow, Len(flow) - 2, Len(flow)) ELSE flow

(* One call of a method of the RemoteModality rm, on a server that is up. *)
RemoteInvoke(rm, op, args, result, query_identifier) ==
    /\ InvokeWithin(MaxFlow, remote[rm].orthanc, op, args, "ok", result,
                    LatestSteps(Append(last.flow, Step(op, query_identifier))))
    /\ remote' = [remote EXCEPT ![rm] = result.remote]

Remote_echo ==
    \E rm \in DOMAIN remote :
        RemoteInvoke(rm, "echo", RemoteArgs(rm, <<>>, NoKwargs),
                     echo(remote[rm], orthanc[remote[rm].orthanc], "ok"), "")

Remote_query ==
    \E rm \in DOMAIN remote, data \in QueryData :
        LET r == query(remote[rm], orthanc[remote[rm].orthanc], data, "ok")
        IN  RemoteInvoke(rm, "query", RemoteArgs(rm, [data |-> data], NoKwargs),
                         r, QueryOf(r))

Remote_retrieve ==
    \E rm \in DOMAIN remote, data \in QueryData :
        RemoteInvoke(rm, "retrieve", RemoteArgs(rm, [data |-> data], NoKwargs),
                     retrieve(remote[rm], orthanc[remote[rm].orthanc], data, "ok"), "")

Remote_move ==
    \E rm \in DOMAIN remote, query_identifier \in CallerQueries, cmove_data \in CMoveData :
        RemoteInvoke(rm, "move",
                     RemoteArgs(rm, [query_identifier |-> query_identifier,
                                     cmove_data |-> cmove_data], NoKwargs),
                     move(remote[rm], orthanc[remote[rm].orthanc], query_identifier,
                          cmove_data, "ok"),
                     query_identifier)

Remote_get_query_answer_number_of_results ==
    \E rm \in DOMAIN remote, query_identifier \in CallerQueries,
       params \in ParamsSet, kwargs \in RemoteKwargs :
        RemoteInvoke(rm, "get_query_answer_number_of_results",
                     RemoteArgs(rm, [query_identifier |-> query_identifier,
                                     params |-> params], kwargs),
                     get_query_answer_number_of_results(
                         remote[rm], orthanc[remote[rm].orthanc], query_identifier,
                         params, kwargs, "ok"),
                     query_identifier)

Remote_get_content_of_specified_query_answer ==
    \E rm \in DOMAIN remote, query_identifier \in CallerQueries, index \in {"1"},
       params \in {None}, kwargs \in RemoteKwargs :
        RemoteInvoke(rm, "get_content_of_specified_query_answer",
                     RemoteArgs(rm, [query_identifier |-> query_identifier,
                                     index |-> index, params |-> params], kwargs),
                     get_content_of_specified_query_answer(
                         remote[rm], orthanc[remote[rm].orthanc], query_identifier,
                         index, params, kwargs, "ok"),
                     query_identifier)

NextRemote ==
    \/ setup_credentials
    \/ Remote_echo
    \/ Remote_query
    \/ Remote_retrieve
    \/ Remote_move
    \/ Remote_get_query_answer_number_of_results
    \/ Remote_get_content_of_specified_query_answer

SpecRemote == Init /\ [][NextRemote]_vars

(* The verb helpers, endpoint methods and RemoteModality on the same      *)
(* client.                                                                 *)
NextClient ==
    \/ setup_credentials
    \/ Call_get_request
    \/ Call_delete_request
    \/ Call_post_request
    \/ Call_put_request
    \/ Call_get_patients
    \/ Call_delete_patients_identifier
    \/ Remote_echo
    \/ Remote_query
    \/ Remote_retrieve
    \/ Remote_move
    \/ Remote_get_query_answer_number_of_results
    \/ Remote_get_content_of_specified_query_answer

SpecClient == Init /\ [][NextClient]_vars

(* Two Orthanc objects, each built with its own server address. *)
InitTwo ==
    /\ orthanc = [c \in {"a", "b"} |-> Orthanc__init__(ServerAddress(c))]
    /\ patients = {}
    /\ issued = <<>>
    /\ ncalls = 0
    /\ setup_args = [c \in {"a", "b"} |-> None]
    /\ last = [op |-> "__init__", client |-> "b", args |-> NoArgs, net |-> "ok",
               before |-> Orthanc__init__(ServerAddress("b")), held |-> {},
               made |-> <<>>, flow |-> <<>>,
               sent |-> <<>>, outcome |-> Return(None)]
    /\ queries = <<>>
    /\ remote = [m \in Modalities |-> RemoteModality__init__("a", m)]
    /\ superseded = None

NextTwo ==
    \/ setup_credentials
    \/ Call_get_request
    \/ Call_delete_request
    \/ Call_post_request
    \/ Call_put_request
    \/ Call_get_patients

SpecTwo == InitTwo /\ [][NextTwo]_vars

(* One client, with the record of the credentials it was given before the *)
(* latest.                                                                 *)
InitCredentials ==
    /\ orthanc = [c \in {"a"} |-> Orthanc__init__(ServerAddress(c))]
    /\ patients = {}
    /\ issued = <<>>
    /\ ncalls = 0
    /\ setup_args = [c \in {"a"} |-> None]
    /\ last = [op |-> "__init__", client |-> "a", args |-> NoArgs, net |-> "ok",
               before |-> Orthanc__init__(ServerAddress("a")), held |-> {},
               made |-> <<>>, flow |-> <<>>,
               sent |-> <<>>, outcome |-> Return(None)]
    /\ queries = <<>>
    /\ remote = [m \in Modalities |-> RemoteModality__init__("a", m)]
    /\ superseded = [c \in {"a"} |-> {}]

NextCredentials ==
    \/ setup_credentials
    \/ Call_get_request
    \/ Call_delete_request
    \/ Call_post_request
    \/ Call_put_request
    \/ Call_get_patients
    \/ Call_delete_patients_identifier

SpecCredentials == InitCredentials /\ [][NextCredentials]_vars

----------------------------------------------------------------------------
(* The URLs of the endpoint methods: two objects, one built with a server  *)
(* address that ends in a slash; the resource types are the values the     *)
(* documentation of get_attachments gives, and a path argument may itself  *)
(* hold a path.                                                            *)

SlashedAddress == "http://localhost:8042/"

DocumentedResourceTypes == {"Patient", "Study", "Series", "Instance"}

PathArguments == Identifiers \cup {x \o "/studies" : x \in Identifiers}

InitUrls ==
    /\ orthanc = ("a" :> Orthanc__init__(ServerAddress("a")))
                    @@ ("s" :> Orthanc__init__(SlashedAddress))
    /\ patients = {}
    /\ issued = <<>>
    /\ ncalls = 0
    /\ setup_args = [c \in {"a", "s"} |-> None]
    /\ last = [op |-> "__init__", client |-> "s", args |-> NoArgs, net |-> "ok",
               before |-> Orthanc__init__(SlashedAddress), held |-> {},
               made |-> <<>>, flow |-> <<>>,
               sent |-> <<>>, outcome |-> Return(None)]
    /\ queries = <<>>
    /\ remote = [m \in Modalities |-> RemoteModality__init__("a", m)]
    /\ superseded = None

UrlArgs(identifier) ==
    [identifier |-> identifier, payload |-> [params |-> None], kwargs |-> NoKwargs]

Url_get_attachments ==
    \E c \in DOMAIN orthanc, resource_type \in DocumentedResourceTypes,
       identifier \in Identifiers :
        Invoke(c, "get_attachments",
               [resource_type |-> resource_type, identifier |-> identifier,
                payload |-> [params |-> None], kwargs |-> NoKwargs],
               "ok", get_attachments(orthanc[c], resource_type, identifier, None,
                                     NoKwargs, "ok"))

Url_get_patients_identifier ==
    \E c \in DOMAIN orthanc, identifier \in PathArguments :
        Invoke(c, "get_patients_identifier", UrlArgs(identifier), "ok",
               get_patients_identifier(orthanc[c], identifier, None, NoKwargs, "ok"))

Url_get_patients_identifier_studies ==
    \E c \in DOMAIN orthanc, identifier \in Identifiers :
        Invoke(c, "get_patients_identifier_studies", UrlArgs(identifier), "ok",
               get_patients_identifier_studies(orthanc[c], identifier, None,
                                               NoKwargs, "ok"))

Url_get_studies_identifier ==
    \E c \in DOMAIN orthanc, identifier \in Identifiers :
        Invoke(c, "get_studies_identifier", UrlArgs(identifier), "ok",
               get_studies_identifier(orthanc[c], identifier, None, NoKwargs, "ok"))

Url_get_series_identifier ==
    \E c \in DOMAIN orthanc, identifier \in Identifiers :
        Invoke(c, "get_series_identifier", UrlArgs(identifier), "ok",
               get_series_identifier(orthanc[c], identifier, None, NoKwargs, "ok"))

Url_get_instances_identifier ==
    \E c \in DOMAIN orthanc, identifier \in Identifiers :
        Invoke(c, "get_instances_identifier", UrlArgs(identifier), "ok",
               get_instances_identifier(orthanc[c], identifier, None, NoKwargs, "ok"))

NextUrls ==
    \/ setup_credentials
    \/ Url_get_attachments
    \/ Url_get_patients_identifier
    \/ Url_get_patients_identifier_studies
    \/ Url_get_studies_identifier
    \/ Url_get_series_identifier
    \/ Url_get_instances_identifier

SpecUrls == InitUrls /\ [][NextUrls]_vars

----------------------------------------------------------------------------
(* Properties of the client *)

IsCall ==
    last.op \notin {"__init__", "setup_credentials", "setup_data", "clear_data", "store_data"}

PassesOwnAuth == "auth" \in DOMAIN last.args.kwargs

(* The call failed on the duplicate auth keyword before reaching the HTTP client. *)
DuplicateAuth == IsCall /\ PassesOwnAuth /\ last.before._credentials_are_set

(* What the HTTP client produced for the request of the latest call. *)
Produced ==
    [serial |-> Len(issued),
     status_code |-> Status(last.sent[1], last.held, last.made),
     body |-> Body(last.sent[1], last.held, last.made)]

IssuedInCallOrder ==
    /\ \A i \in 1..Len(issued) : issued[i] \in 1..ncalls
    /\ \A i, j \in 1..Len(issued) : i < j => issued[i] < issued[j]

\* C1 (as stated): after n calls the HTTP client has received exactly n
\* requests, the i-th of them issued by the i-th call.
C1_OneRequestPerCall == issued = [i \in 1..ncalls |-> i]

\* C1 (amended): every call issues at most one request, and exactly one unless
\* it passes its own auth keyword on a client whose credentials are set (that
\* call issues none); the requests reach the HTTP client in the order of the
\* calls, and no request is issued outside a call.
C1_OneRequestPerCallUnlessDuplicateAuth ==
    /\ [](/\ IssuedInCallOrder
          /\ IsCall => /\ Len(last.sent) = (IF DuplicateAuth THEN 0 ELSE 1)
                       /\ (ncalls \in {issued[i] : i \in 1..Len(issued)}) <=> ~DuplicateAuth)
    /\ [][/\ ncalls' \in {ncalls, ncalls + 1}
          /\ ncalls' = ncalls => issued' = issued
          /\ ncalls' = ncalls + 1 => issued' \in {issued, Append(issued, ncalls')}]_vars

C1_Witness ==
    /\ ncalls = 2
    /\ issued = <<1>>
    /\ last.op = "get_patients_identifier"
    /\ last.outcome = Raise("TypeError")

\* C2 (as stated): a request carries HTTP Basic credentials if and only if
\* setup_credentials was called on the client before it, and then they are
\* built from the arguments of setup_credentials.
C2_AuthIffSetup ==
    IsCall =>
        \A i \in 1..Len(last.sent) :
            /\ ("auth" \in DOMAIN last.sent[i].kw) <=> (setup_args[last.client] # None)
            /\ setup_args[last.client] # None =>
                   last.sent[i].kw.auth = HTTPBasicAuth(setup_args[last.client].username,
                                                        setup_args[last.client].password)

\* C2 (amended): a request issued by a call that passes no auth keyword of its
\* own carries HTTP Basic credentials if and only if setup_credentials was
\* called on the client before it, and then they are built from the arguments
\* of the latest setup_credentials call, for GET, POST, PUT and DELETE alike; a
\* call that passes its own auth keyword issues a request only when
\* setup_credentials was not called, and that request carries the caller's auth.
C2_AuthIffSetupWithoutOwnAuth ==
    /\ (IsCall /\ ~PassesOwnAuth) =>
           /\ Len(last.sent) = 1
           /\ ("auth" \in DOMAIN last.sent[1].kw) <=> (setup_args[last.client] # None)
           /\ setup_args[last.client] # None =>
                  last.sent[1].kw.auth = HTTPBasicAuth(setup_args[last.client].username,
                                                       setup_args[last.client].password)
    /\ (IsCall /\ PassesOwnAuth) =>
           \A i \in 1..Len(last.sent) :
               /\ setup_args[last.client] = None
               /\ last.sent[i].kw.auth = last.args.kwargs.auth

C2_Witness ==
    /\ last.op = "put_attachment_by_name"
    /\ ~PassesOwnAuth
    /\ setup_args[last.client] = [username |-> "bob", password |-> "pw2"]
    /\ Len(last.sent) = 1
    /\ last.sent[1].kw.auth = HTTPBasicAuth("bob", "pw2")

\* C3: a method that returns, returns exactly the response object the HTTP
\* client produced for its request: same object, status code and body,
\* whatever the status code.
C3_ReturnsTheResponse ==
    (IsCall /\ last.outcome.kind = "return") =>
        /\ Len(last.sent) = 1
        /\ last.outcome.value = Produced

C3_Witness ==
    /\ last.op = "get_patients"
    /\ last.held = {A_PATIENT_IDENTIFIER}
    /\ last.outcome = Return([serial |-> 2, status_code |-> 200,
                              body |-> [type |-> "list", items |-> {A_PATIENT_IDENTIFIER}]])

\* C4: the URL of a request is the server address followed by the endpoint's
\* path with the call's parameters substituted, for get_patients_identifier,
\* get_instances_identifier_tags, post_tools_find and post_modalities_dicom_query.
C4_EndpointUrls ==
    \A i \in 1..Len(last.sent) :
        /\ last.op = "get_patients_identifier" =>
               last.sent[i].url = last.before._orthanc_url \o "/patients/" \o last.args.identifier
        /\ last.op = "get_instances_identifier_tags" =>
               last.sent[i].url =
                   last.before._orthanc_url \o "/instances/" \o last.args.identifier \o "/tags"
        /\ last.op = "post_tools_find" =>
               last.sent[i].url = last.before._orthanc_url \o "/tools/find"
        /\ last.op = "post_modalities_dicom_query" =>
               last.sent[i].url =
                   last.before._orthanc_url \o "/modalities/" \o last.args.dicom \o "/query"

C4_Witness ==
    /\ last.op = "get_instances_identifier_tags"
    /\ last.args.identifier = "p2"
    /\ Len(last.sent) = 1
    /\ last.sent[1].url = "http://localhost:8042/instances/p2/tags"

GetMethods == {"get_request", "get_patients", "get_patients_identifier",
               "get_instances_identifier_tags", "get_attachments"}

PostMethods == {"post_request", "post_patients_identifier_anonymize",
                "post_modalities_dicom_query", "post_tools_find"}

PutMethods == {"put_request", "put_attachment_by_name"}

DeleteMethods == {"delete_request", "delete_patients_identifier"}

\* C5: every request a get_* method issues is a GET with the given params and
\* no body, every request of a post_* method a POST with the given data and
\* json, of a put_* method a PUT with the given data and json, and of a
\* delete_* method a DELETE.
C5_VerbAndPayload ==
    IsCall =>
        \A i \in 1..Len(last.sent) :
            LET req == last.sent[i] IN
            /\ last.op \in GetMethods \cup PostMethods \cup PutMethods \cup DeleteMethods
            /\ last.op \in GetMethods =>
                   /\ req.method = "GET"
                   /\ req.kw.params = last.args.payload.params
                   /\ DOMAIN req.kw \cap {"data", "json"} = {}
            /\ last.op \in PostMethods =>
                   /\ req.method = "POST"
                   /\ req.kw.data = last.args.payload.data
                   /\ req.kw.json = last.args.payload.json
            /\ last.op \in PutMethods =>
                   /\ req.method = "PUT"
                   /\ req.kw.data = last.args.payload.data
                   /\ req.kw.json = last.args.payload.json
            /\ last.op \in DeleteMethods =>
                   /\ req.method = "DELETE"
                   /\ DOMAIN req.kw \cap {"params", "data", "json"} = {}

C5_Witness ==
    /\ last.op = "put_attachment_by_name"
    /\ last.args.payload = [data |-> Dict("Level=Study"), json |-> None]
    /\ Len(last.sent) = 1
    /\ last.sent[1].method = "PUT"
    /\ last.sent[1].kw.data = Dict("Level=Study")

\* C6: when the server answers with a non-2xx status, the method returns that
\* response as it is: it raises nothing and issues no second request.
C6_Non2xxReturned ==
    (IsCall /\ last.net = "ok" /\ Len(last.sent) >= 1
        /\ ServerStatus(last.sent[1], last.held) \notin 200..299) =>
        /\ last.outcome = Return(Produced)
        /\ Len(last.sent) = 1

C6_Witness ==
    /\ last.op = "get_patients_identifier"
    /\ last.outcome.kind = "return"
    /\ last.outcome.value.status_code = 404

\* C7: when the HTTP client fails to connect, the failure reaches the caller
\* unchanged, no further request is attempted, and the client's server
\* address and credentials are what they were before the call.
C7_ConnectionFailure ==
    (IsCall /\ last.net = "down" /\ Len(last.sent) >= 1) =>
        /\ last.outcome = Raise("ConnectionError")
        /\ Len(last.sent) = 1
        /\ orthanc[last.client] = last.before

C7_Witness ==
    /\ last.op = "delete_patients_identifier"
    /\ last.before._credentials_are_set
    /\ last.outcome = Raise("ConnectionError")
    /\ Len(last.sent) = 1

----------------------------------------------------------------------------
(* Properties of the patient operations *)

WithoutLastUpdate(document) ==
    [key \in DOMAIN document \ {"LastUpdate"} |-> document[key]]

----------------------------------------------------------------------------
(* Keyword arguments of the caller *)

(* The keywords the helpers themselves give to the HTTP client. *)
OwnKeywords == {"params", "data", "json", "auth"}

KwargsReached ==
    /\ Len(last.sent) = 1
    /\ \A k \in DOMAIN last.args.kwargs :
          /\ k \in DOMAIN last.sent[1].kw
          /\ last.sent[1].kw[k] = last.args.kwargs[k]
    /\ DOMAIN last.sent[1].kw \ DOMAIN last.args.kwargs \subseteq OwnKeywords

\* C13 (as stated): the extra keyword arguments given to an endpoint method or
\* verb helper reach the HTTP client call unmodified, none dropped, renamed,
\* defaulted or overridden, whether or not credentials are set.
C13_KwargsReachTheClient == IsCall => KwargsReached

\* C13 (amended): the extra keyword arguments reach the HTTP client call
\* unmodified and nothing is added to them, whether or not credentials are
\* set, except that a call passing auth on a client whose credentials are set
\* fails with TypeError and no keyword argument reaches the HTTP client.
C13_KwargsReachUnlessDuplicateAuth ==
    IsCall => IF DuplicateAuth
              THEN last.sent = <<>> /\ last.outcome = Raise("TypeError")
              ELSE KwargsReached

C13_Witness ==
    /\ last.op = "get_patients"
    /\ last.before._credentials_are_set
    /\ last.args.kwargs = ("timeout" :> PyInt(5))
    /\ Len(last.sent) = 1
    /\ last.sent[1].kw.timeout = PyInt(5)
    /\ last.sent[1].kw.auth = HTTPBasicAuth("bob", "pw2")
    /\ DOMAIN last.sent[1].kw = {"params", "auth", "timeout"}

----------------------------------------------------------------------------
(* Properties of RemoteModality *)

RemoteOps == {"echo", "query", "retrieve", "move",
              "get_query_answer_number_of_results",
              "get_content_of_specified_query_answer"}

AnswerOps == {"get_query_answer_number_of_results",
              "get_content_of_specified_query_answer"}

(* The URL the latest call on a RemoteModality is to request, from the     *)
(* arguments of the caller and the fields of the two objects.              *)
RemoteUrl ==
    LET base == last.before._orthanc_url
        modality == remote[last.args.remote].modality
    IN  CASE last.op = "echo" -> base \o "/modalities/" \o modality \o "/echo"
          [] last.op = "query" -> base \o "/modalities/" \o modality \o "/query"
          [] last.op = "retrieve" -> base \o "/modalities/" \o modality \o "/move"
          [] last.op = "move" ->
                base \o "/queries/" \o last.args.payload.query_identifier \o "/retrieve"
          [] last.op = "get_query_answer_number_of_results" ->
                base \o "/queries/" \o last.args.payload.query_identifier \o "/answers"
          [] last.op = "get_content_of_specified_query_answer" ->
                base \o "/queries/" \o last.args.payload.query_identifier \o "/answers/"
                     \o last.args.payload.index \o "/content"

(* The latest three calls were a query, a look at answers and a move. *)
FlowCompleted ==
    /\ Len(last.flow) >= 3
    /\ last.flow[Len(last.flow) - 2].op = "query"
    /\ last.flow[Len(last.flow) - 1].op \in AnswerOps
    /\ last.flow[Len(last.flow)].op = "move"

\* C16: each step of the remote-modality flow (query, then
\* get_query_answer_number_of_results or get_content_of_specified_query_answer,
\* then move) issues exactly one HTTP request, three in all and in the order of
\* the steps, with no retry and no pagination; RemoteModality records nothing
\* between the steps: the query identifier in the request of a later step is
\* the one the caller passes in.
C16_RemoteFlow ==
    /\ [](last.op \in {"query", "move"} \cup AnswerOps =>
            /\ Len(last.sent) = 1
            /\ last.sent[1].url = RemoteUrl)
    /\ [](FlowCompleted =>
            /\ Len(issued) >= 3
            /\ SubSeq(issued, Len(issued) - 2, Len(issued)) =
                  <<ncalls - 2, ncalls - 1, ncalls>>)
    /\ [][(last'.op \in {"query", "move"} \cup AnswerOps /\ ncalls' = ncalls + 1)
             => issued' = Append(issued, ncalls')]_vars
    /\ [][remote' = remote]_vars

C16_Witness ==
    /\ last.flow = <<Step("query", "q1"),
                     Step("get_query_answer_number_of_results", "q1"),
                     Step("move", "q1")>>
    /\ issued = <<1, 2, 3>>
    /\ last.sent[1].url = "http://localhost:8042/queries/q1/retrieve"
    /\ last.outcome = Return(PyBool(TRUE))

----------------------------------------------------------------------------
(* Frame *)

\* C14: no endpoint method and no verb helper changes the state of the client:
\* the server address and the credentials of an Orthanc object change only in
\* setup_credentials; and the orthanc and modality fields of a RemoteModality
\* never change after construction.
C14_Frame ==
    /\ [][/\ ncalls' = ncalls + 1 => orthanc' = orthanc
          /\ orthanc' # orthanc => last'.op = "setup_credentials"
          /\ \A c \in DOMAIN orthanc : orthanc'[c]._orthanc_url = orthanc[c]._orthanc_url
          /\ remote' = remote]_vars
    /\ [](\A m \in DOMAIN remote : remote[m] = RemoteModality__init__("a", m))

C14_Witness ==
    /\ last.op = "delete_patients_identifier"
    /\ last.before = Orthanc_setup_credentials(Orthanc__init__(ServerAddress("a")),
                                               "alice", "pw1")
    /\ orthanc["a"] = last.before
    /\ Len(last.sent) = 1
    /\ DOMAIN queries = {"q1"}
    /\ remote["sample"] = RemoteModality__init__("a", "sample")

----------------------------------------------------------------------------
(* Two clients *)

(* The authentication of the request of the latest call is what the       *)
(* setup_credentials calls on that same client make it.                    *)
AuthenticatedAsSetUp ==
    LET given == setup_args[last.client]
    IN  IF given = None
        THEN "auth" \in DOMAIN last.sent[1].kw =>
                /\ PassesOwnAuth
                /\ last.sent[1].kw.auth = last.args.kwargs.auth
        ELSE /\ "auth" \in DOMAIN last.sent[1].kw
             /\ last.sent[1].kw.auth = HTTPBasicAuth(given.username, given.password)

\* C15: two Orthanc objects share no state: setup_credentials on one changes
\* only that one, and whether and with which credentials the requests of the
\* other are authenticated never depends on it, in any interleaving of calls
\* on the two.
C15_NoSharedState ==
    /\ [][\A c \in DOMAIN orthanc :
            orthanc'[c] # orthanc[c] =>
                (last'.op = "setup_credentials" /\ last'.client = c)]_vars
    /\ []((IsCall /\ Len(last.sent) = 1) => AuthenticatedAsSetUp)

C15_Witness ==
    /\ last.op = "get_patients"
    /\ last.client = "b"
    /\ setup_args["a"] = [username |-> "alice", password |-> "pw1"]
    /\ setup_args["b"] = None
    /\ orthanc["a"]._credentials_are_set
    /\ ~orthanc["b"]._credentials_are_set
    /\ Len(last.sent) = 1
    /\ "auth" \notin DOMAIN last.sent[1].kw
    /\ issued = <<1, 2>>

----------------------------------------------------------------------------
(* Properties of the URLs *)

(* The URL of the request of the method that addresses the resource of     *)
(* that type and identifier.                                               *)
ResourceUrl(self, resource_type, identifier) ==
    LET r == CASE resource_type = "Patient" ->
                    get_patients_identifier(self, identifier, None, NoKwargs, "ok")
               [] resource_type = "Study" ->
                    get_studies_identifier(self, identifier, None, NoKwargs, "ok")
               [] resource_type = "Series" ->
                    get_series_identifier(self, identifier, None, NoKwargs, "ok")
               [] resource_type = "Instance" ->
                    get_instances_identifier(self, identifier, None, NoKwargs, "ok")
    IN  r.sent[1].url

\* C21 (as stated): for resource_type 'Patient', 'Study', 'Series' or
\* 'Instance' and an identifier i, the URL of get_attachments(resource_type, i)
\* is the URL of get_patients_identifier(i), get_studies_identifier(i),
\* get_series_identifier(i) or get_instances_identifier(i) followed by
\* /attachments.
C21_AttachmentsOfTheResource ==
    last.op = "get_attachments" =>
        /\ Len(last.sent) = 1
        /\ last.sent[1].url =
              ResourceUrl(last.before, last.args.resource_type, last.args.identifier)
                  \o "/attachments"

----------------------------------------------------------------------------
(* Keyword arguments of the caller of RemoteModality *)

\* C22 (as stated): the keyword arguments a caller gives to
\* RemoteModality.get_query_answer_number_of_results and to
\* RemoteModality.get_content_of_specified_query_answer (for instance timeout)
\* reach the HTTP call that the method causes, unmodified.
C22_RemoteKwargsReachTheClient == last.op \in AnswerOps => KwargsReached

----------------------------------------------------------------------------
(* Credentials *)

\* C23: when setup_credentials is called more than once on a client, every
\* request issued after the latest call carries the credentials of the latest
\* call, and the credentials of an earlier call are never attached to a later
\* request.
C23_LatestCredentials ==
    (IsCall /\ setup_args[last.client] # None) =>
        \A i \in 1..Len(last.sent) :
            /\ "auth" \in DOMAIN last.sent[i].kw
            /\ last.sent[i].kw.auth = HTTPBasicAuth(setup_args[last.client].username,
                                                    setup_args[last.client].password)
            /\ \A earlier \in superseded[last.client] :
                  earlier # orthanc[last.client]._credentials =>
                      last.sent[i].kw.auth # earlier

C23_Witness ==
    /\ last.op = "get_request"
    /\ superseded["a"] = {HTTPBasicAuth("alice", "pw1")}
    /\ setup_args["a"] = [username |-> "bob", password |-> "pw2"]
    /\ Len(last.sent) = 1
    /\ last.sent[1].kw.auth = HTTPBasicAuth("bob", "pw2")
    /\ issued = <<1, 2>>

\* C24: in every reachable state of an Orthanc object the flag
\* _credentials_are_set is true exactly when _credentials holds a credentials
\* object; the flag is false after construction, and once true it never
\* becomes false again under any sequence of public operations.
C24_CredentialsFlag ==
    /\ \A c \in DOMAIN orthanc : ~orthanc[c]._credentials_are_set
    /\ [](\A c \in DOMAIN orthanc :
            /\ orthanc[c]._credentials_are_set <=>
                  orthanc[c]._credentials.type = "HTTPBasicAuth"
            /\ ~orthanc[c]._credentials_are_set <=> orthanc[c]._credentials = None)
    /\ [][\A c \in DOMAIN orthanc :
            orthanc[c]._credentials_are_set => orthanc'[c]._credentials_are_set]_vars

C24_Witness ==
    /\ last.op = "put_attachment_by_name"
    /\ last.before._credentials_are_set
    /\ last.outcome = Raise("ConnectionError")
    /\ orthanc["a"]._credentials_are_set
    /\ orthanc["a"]._credentials = HTTPBasicAuth("alice", "pw1")
    /\ ncalls = 2

(* The same object with the other state of its credentials. *)
Counterpart(self) ==
    IF self._credentials_are_set THEN Orthanc__init__(self._orthanc_url)
    ELSE Orthanc_setup_credentials(self, "alice", "pw1")

(* What the verb helper of the latest call does on the object self. *)
HelperOn(self) ==
    CASE last.op = "get_request" ->
            get_request(self, last.args.route, last.args.payload.params,
                        last.args.kwargs, last.net)
      [] last.op = "delete_request" ->
            delete_request(self, last.args.route, last.args.kwargs, last.net)
      [] last.op = "post_request" ->
            post_request(self, last.args.route, last.args.payload.data,
                         last.args.payload.json, last.args.kwargs, last.net)
      [] last.op = "put_request" ->
            put_request(self, last.args.route, last.args.payload.data,
                        last.args.payload.json, last.args.kwargs, last.net)

WithoutAuth(req) ==
    [method |-> req.method, url |-> req.url,
     kw |-> [k \in DOMAIN req.kw \ {"auth"} |-> req.kw[k]]]

\* C25: for each of the four verb helpers and every input (route, params,
\* data, json, extra keyword arguments without auth), the request issued by a
\* client with credentials and the request issued by a client without are
\* equal in verb, route, params, data, json and extra keyword arguments, and
\* differ only in the auth attached; in particular put_request sends the same
\* data and json in both branches.
C25_BranchesAgree ==
    (last.op \in {"get_request", "delete_request", "post_request", "put_request"}
     /\ ~PassesOwnAuth) =>
        LET other == HelperOn(Counterpart(last.before)).sent
        IN  /\ Len(last.sent) = 1
            /\ Len(other) = 1
            /\ WithoutAuth(last.sent[1]) = WithoutAuth(other[1])
            /\ last.sent[1].url = last.args.route
            /\ \A k \in DOMAIN last.args.payload :
                  /\ last.sent[1].kw[k] = last.args.payload[k]
                  /\ other[1].kw[k] = last.args.payload[k]
            /\ ("auth" \in DOMAIN last.sent[1].kw) = last.before._credentials_are_set
            /\ ("auth" \in DOMAIN other[1].kw) = ~last.before._credentials_are_set

C25_Witness ==
    /\ last.op = "put_request"
    /\ ~last.before._credentials_are_set
    /\ last.args.payload = [data |-> None, json |-> Dict("Query")]
    /\ last.args.kwargs = ("timeout" :> PyInt(5))
    /\ Len(last.sent) = 1
    /\ last.sent[1].kw = [data |-> None, json |-> Dict("Query"), timeout |-> PyInt(5)]

\* C26: a caller that passes its own auth keyword argument to a verb helper
\* or endpoint method gets an outcome that depends on the client's state:
\* when credentials have not been set the caller's auth is forwarded to the
\* HTTP client, and when they have been set the call fails with a
\* duplicate-argument error before any request is issued, leaving the client
\* state unchanged.
C26_OwnAuth ==
    (IsCall /\ PassesOwnAuth) =>
        IF last.before._credentials_are_set
        THEN /\ last.sent = <<>>
             /\ last.outcome = Raise("TypeError")
             /\ orthanc[last.client] = last.before
        ELSE /\ Len(last.sent) = 1
             /\ last.sent[1].kw.auth = last.args.kwargs.auth
             /\ orthanc[last.client] = last.before

C26_Witness ==
    /\ last.op = "post_tools_find"
    /\ last.before._credentials_are_set
    /\ PassesOwnAuth
    /\ last.args.kwargs.auth = HTTPBasicAuth("caller", "secret")
    /\ last.sent = <<>>
    /\ last.outcome = Raise("TypeError")
    /\ issued = <<1>>
    /\ ncalls = 2

\* the address each object of the URL specification was constructed with
AddressGiven(c) == IF c = "s" THEN SlashedAddress ELSE ServerAddress(c)

\* the path of an endpoint method, its arguments as they were given
PathOf(op, args) ==
    CASE op = "get_attachments" ->
             "/" \o args.resource_type \o "/" \o args.identifier \o "/attachments"
      [] op = "get_patients_identifier" -> "/patients/" \o args.identifier
      [] op = "get_patients_identifier_studies" ->
             "/patients/" \o args.identifier \o "/studies"
      [] op = "get_studies_identifier" -> "/studies/" \o args.identifier
      [] op = "get_series_identifier" -> "/series/" \o args.identifier
      [] op = "get_instances_identifier" -> "/instances/" \o args.identifier

UrlOps ==
    {"get_attachments", "get_patients_identifier", "get_patients_identifier_studies",
     "get_studies_identifier", "get_series_identifier", "get_instances_identifier"}

\* C27: an endpoint method issues one request whose URL is the address the
\* object was constructed with followed by the path with every path argument
\* as given, nothing escaped, checked or normalised; so
\* get_patients_identifier(x + '/studies') issues the very request of
\* get_patients_identifier_studies(x), and the object constructed with an
\* address ending in '/' asks for a URL with a double slash.
C27_VerbatimUrls ==
    last.op \in UrlOps =>
        /\ Len(last.sent) = 1
        /\ last.sent[1].url = AddressGiven(last.client) \o PathOf(last.op, last.args)
        /\ (last.op = "get_patients_identifier") =>
               \A x \in Identifiers :
                   last.args.identifier = x \o "/studies" =>
                       last.sent = get_patients_identifier_studies(
                                       last.before, x, None, NoKwargs, "ok").sent
        /\ (last.client = "s" /\ last.op = "get_patients_identifier") =>
               last.sent[1].url \in
                   {"http://localhost:8042//patients/" \o i : i \in PathArguments}

C27_Witness ==
    /\ last.op = "get_patients_identifier"
    /\ last.client = "s"
    /\ last.args.identifier = "p1/studies"
    /\ Len(last.sent) = 1
    /\ last.sent[1].url = "http://localhost:8042//patients/p1/studies"
    /\ last.sent[1].method = "GET"

====
